---- MODULE Spec2Model ----
(***************************************************************************)
(* A model of green_score/green.py: the critique parser                    *)
(* (parse_error_counts, parse_error_sentences), the score (compute_green), *)
(* the dataset summary (compute_accuracy, compute_summary) and the sharded *)
(* inference pipeline (infer, process_results).                            *)
(*                                                                         *)
(* A Python str is a sequence of symbols.  A symbol is one character, or   *)
(* one of the fixed phrases the code only ever compares as a whole: the    *)
(* three bracketed category labels and the six subcategory descriptions.   *)
(***************************************************************************)
EXTENDS Integers, Sequences, FiniteSets, TLC

VARIABLES
    sub_categories,     \* self.sub_categories of the Inferer that parses
    pc,                 \* "idle" | "returned" (call machine) ; "infer" | "gathered" | "done" | "raised" (pipeline)
    call,               \* the method call in progress: [op, text, category, for_reward, responses]
    ret,                \* the value that call returned
    dataset,            \* self.dataset: one record per (reference, prediction) pair
    generate,           \* the critique the language model writes for each pair
    world_size,         \* WORLD_SIZE: the number of workers
    batch_size,         \* self.batch_size
    cursor,             \* per rank: how many examples of its shard are done
    local_completions,  \* per rank: local_completions of infer()
    local_references,   \* per rank: local_references of infer()
    completions,        \* self.completions on rank 0
    prompts,            \* self.prompts on rank 0
    green_scores,       \* self.green_scores
    error_counts,       \* self.error_counts (rows)
    results_df,         \* the table process_results returns
    accuracies          \* the dict compute_accuracy returned to compute_summary

vars == <<sub_categories, pc, call, ret, dataset, generate, world_size, batch_size,
          cursor, local_completions, local_references, completions, prompts,
          green_scores, error_counts, results_df, accuracies>>

----------------------------------------------------------------------------
(* Symbols *)

NL == "\n"

DescA == "False report of a finding in the candidate"
DescB == "Missing a finding present in the reference"
DescC == "Misidentification of a finding's anatomic location/position"
DescD == "Misassessment of the severity of a finding"
DescE == "Mentioning a comparison that isn't in the reference"
DescF == "Omitting a comparison detailing a change from a prior study"

Digits == <<"0", "1", "2", "3", "4", "5", "6", "7", "8", "9">>
Letters == <<"a", "b", "c", "d", "e", "f">>

RECURSIVE IndexIn(_, _, _)
IndexIn(seq, x, i) ==
    IF i > Len(seq) THEN 0
    ELSE IF seq[i] = x THEN i
    ELSE IndexIn(seq, x, i + 1)

IsDigit(c) == IndexIn(Digits, c, 1) > 0
DigitValue(c) == IndexIn(Digits, c, 1) - 1

\* \s : the whitespace characters of the alphabet
IsSpace(c) == c \in {" ", NL}

\* The order of symbols in Python's str comparison: the code point of a
\* character (times 100); a phrase is ordered by its first character, then
\* among the phrases that share it by the rest of the phrase.
Ord(c) ==
    CASE c = NL -> 1000
      [] c = " " -> 3200
      [] c = "(" -> 4000
      [] c = ")" -> 4100
      [] c = "." -> 4600
      [] IsDigit(c) -> 4800 + 100 * DigitValue(c)
      [] c = ":" -> 5800
      [] c = ";" -> 5900
      [] c = DescA -> 7000
      [] c = DescE -> 7701
      [] c = DescD -> 7702
      [] c = DescC -> 7703
      [] c = DescB -> 7704
      [] c = "N" -> 7800
      [] c = DescF -> 7900
      [] c = "[Clinically Insignificant Errors]" -> 9101
      [] c = "[Clinically Significant Errors]" -> 9102
      [] c = "[Matched Findings]" -> 9103
      [] c = "a" -> 9700
      [] c = "b" -> 9800
      [] c = "c" -> 9900
      [] c = "d" -> 10000
      [] c = "e" -> 10100
      [] c = "f" -> 10200
      [] c = "o" -> 11100
      [] c = "x" -> 12000

----------------------------------------------------------------------------
(* str methods and the regular expressions of the parser *)

startswith(s, prefix) ==
    /\ Len(prefix) <= Len(s)
    /\ SubSeq(s, 1, Len(prefix)) = prefix

\* s < t in Python's comparison of str
RECURSIVE StrLess(_, _, _)
StrLess(s, t, i) ==
    IF i > Len(t) THEN FALSE
    ELSE IF i > Len(s) THEN TRUE
    ELSE IF s[i] = t[i] THEN StrLess(s, t, i + 1)
    ELSE Ord(s[i]) < Ord(t[i])

RECURSIVE Insert(_, _, _)
Insert(sortedSeq, s, i) ==
    IF i > Len(sortedSeq) THEN Append(sortedSeq, s)
    ELSE IF StrLess(s, sortedSeq[i], 1)
         THEN SubSeq(sortedSeq, 1, i - 1) \o <<s>> \o SubSeq(sortedSeq, i, Len(sortedSeq))
         ELSE Insert(sortedSeq, s, i + 1)

\* the matches left in the order of the text
unsorted(list) == list

\* sorted(list of str)
RECURSIVE sorted(_)
sorted(list) ==
    IF list = <<>> THEN <<>>
    ELSE Insert(sorted(SubSeq(list, 1, Len(list) - 1)), list[Len(list)], 1)

\* the first index >= i that holds no whitespace (Len + 1 when none)
RECURSIVE SkipSpace(_, _)
SkipSpace(text, i) ==
    IF i > Len(text) \/ ~IsSpace(text[i]) THEN i ELSE SkipSpace(text, i + 1)

\* \n\s*\n matches at p
BlankLineAt(text, p) ==
    /\ p <= Len(text)
    /\ text[p] = NL
    /\ \E q \in (p + 1)..(SkipSpace(text, p + 1) - 1) : text[q] = NL

\* the first p >= i where (?:\n\s*\n|\Z) matches
RECURSIVE BlockEnd(_, _)
BlockEnd(text, i) ==
    IF i > Len(text) \/ BlankLineAt(text, i) THEN i ELSE BlockEnd(text, i + 1)

Label(category) ==
    CASE category = "Clinically Significant Errors" -> "[Clinically Significant Errors]"
      [] category = "Clinically Insignificant Errors" -> "[Clinically Insignificant Errors]"
      [] category = "Matched Findings" -> "[Matched Findings]"
      [] OTHER -> "[]"

\* where  \[{category}\]:  first matches from i on, 0 when nowhere
RECURSIVE LabelAt(_, _, _)
LabelAt(text, category, i) ==
    IF i + 1 > Len(text) THEN 0
    ELSE IF text[i] = Label(category) /\ text[i + 1] = ":" THEN i
    ELSE LabelAt(text, category, i + 1)

\* re.search(rf"\[{category}\]:\s*(.*?)(?:\n\s*\n|\Z)", text, re.DOTALL):
\* [found, group1]
CategorySearch(text, category) ==
    LET at == LabelAt(text, category, 1)
        from == SkipSpace(text, at + 2)
    IN  IF at = 0 THEN [found |-> FALSE, group1 |-> <<>>]
        ELSE [found |-> TRUE, group1 |-> SubSeq(text, from, BlockEnd(text, from) - 1)]

\* the last index of the run of digits that starts at i
RECURSIVE DigitsEnd(_, _)
DigitsEnd(s, i) ==
    IF i + 1 <= Len(s) /\ IsDigit(s[i + 1]) THEN DigitsEnd(s, i + 1) ELSE i

\* int(s[i..j])
RECURSIVE ToInt(_, _, _)
ToInt(s, i, j) ==
    IF j < i THEN 0 ELSE 10 * ToInt(s, i, j - 1) + DigitValue(s[j])

\* \d+\b(?=\.) matches at i: the run of digits from i on and then a period
\* (the \b before it holds where the parser applies it: at the start of the
\* text and after ": ")
NumberAt(s, i) ==
    /\ i <= Len(s)
    /\ IsDigit(s[i])
    /\ DigitsEnd(s, i) + 1 <= Len(s)
    /\ s[DigitsEnd(s, i) + 1] = "."

\* re.findall(r"^\b\d+\b(?=\.)", s): at most one match, at the start
LeadingCount(s) ==
    IF NumberAt(s, 1) THEN <<ToInt(s, 1, DigitsEnd(s, 1))>> ELSE <<>>

\* re.findall(r"(?<=: )\b\d+\b(?=\.)", s) from i on
RECURSIVE ColonCounts(_, _)
ColonCounts(s, i) ==
    IF i > Len(s) THEN <<>>
    ELSE IF i >= 3 /\ s[i - 2] = ":" /\ s[i - 1] = " " /\ NumberAt(s, i)
         THEN <<ToInt(s, i, DigitsEnd(s, i))>> \o ColonCounts(s, DigitsEnd(s, i) + 1)
         ELSE ColonCounts(s, i + 1)

\* the last index of the line that holds i
RECURSIVE LineEnd(_, _)
LineEnd(s, i) ==
    IF i + 1 <= Len(s) /\ s[i + 1] # NL THEN LineEnd(s, i + 1) ELSE i

MarkerAt(s, i, alphabet) ==
    /\ i + 3 <= Len(s)
    /\ s[i] = "("
    /\ IndexIn(alphabet, s[i + 1], 1) > 0
    /\ s[i + 2] = ")"
    /\ s[i + 3] = " "

\* re.findall(r"\([a-f]\) .*", s) and re.findall(r"\([1-6]\) .*", s), from i on
RECURSIVE FindMarkers(_, _, _)
FindMarkers(s, i, alphabet) ==
    IF i > Len(s) THEN <<>>
    ELSE IF MarkerAt(s, i, alphabet)
         THEN <<SubSeq(s, i, LineEnd(s, i))>> \o FindMarkers(s, LineEnd(s, i) + 1, alphabet)
         ELSE FindMarkers(s, i + 1, alphabet)

LetterMarkers == Letters
NumberMarkers == SubSeq(Digits, 2, 7)

\* s.split(" ", 1)[0]
RECURSIVE FirstWord(_, _)
FirstWord(s, i) ==
    IF i > Len(s) \/ s[i] = " " THEN SubSeq(s, 1, i - 1) ELSE FirstWord(s, i + 1)

----------------------------------------------------------------------------
(* Inferer *)

categories ==
    <<"Clinically Significant Errors", "Clinically Insignificant Errors", "Matched Findings">>

InitSubCategories ==
    << <<"(", "a", ")", " ", DescA>>,
       <<"(", "b", ")", " ", DescB>>,
       <<"(", "c", ")", " ", DescC>>,
       <<"(", "d", ")", " ", DescD>>,
       <<"(", "e", ")", " ", DescE>>,
       <<"(", "f", ")", " ", DescF>> >>

\* [f"({i})" + " " for i in range(1, len(self.sub_categories) + 1)]
NumberedSubCategories(n) == [i \in 1..n |-> <<"(", Digits[i + 1], ")", " ">>]

ValueError == [raised |-> "ValueError"]

\* the counts with the sum as a seventh entry of sub_counts
CountsWithSum(s, sub) ==
    [none |-> FALSE, sum_counts |-> s, sub_counts |-> Append(sub, s)]

\* return sum_counts, sub_counts
Counts(s, sub) == [none |-> FALSE, sum_counts |-> s, sub_counts |-> sub]
NoneNone == [none |-> TRUE, sum_counts |-> 0, sub_counts |-> <<>>]

RECURSIVE SumSeq(_)
SumSeq(s) == IF s = <<>> THEN 0 ELSE s[1] + SumSeq(Tail(s))

\* the not-found branch without the reward's (None, None)
CategoryNotFoundCoerced(for_reward) == Counts(0, [i \in 1..6 |-> 0])

\* parse_error_counts when the category is not found: (None, None) for the
\* reward, else the initial counts
CategoryNotFound(for_reward) ==
    IF for_reward THEN NoneNone ELSE Counts(0, [i \in 1..6 |-> 0])

\* the inner loop of parse_error_counts for one sub_category: the slot's value
\* after the matches m..len(matches) have been looked at
RECURSIVE SlotAfter(_, _, _, _)
SlotAfter(matches, sub_category, m, slot) ==
    IF m > Len(matches) THEN slot
    ELSE LET count == ColonCounts(matches[m], 1)
         IN  IF startswith(matches[m], sub_category) /\ Len(count) > 0
             THEN SlotAfter(matches, sub_category, m + 1, count[1])
             ELSE SlotAfter(matches, sub_category, m + 1, slot)

parse_error_counts(self_sub_categories, text, category, for_reward) ==
    LET category_text == CategorySearch(text, category)
        group1 == category_text.group1
        zeros == [i \in 1..6 |-> 0]
        counts == LeadingCount(group1)
        lettered == sorted(FindMarkers(group1, 1, LetterMarkers))
        matches == IF Len(lettered) = 0
                   THEN sorted(FindMarkers(group1, 1, NumberMarkers))
                   ELSE lettered
        sub_cats == IF Len(lettered) = 0
                    THEN NumberedSubCategories(Len(self_sub_categories))
                    ELSE [i \in 1..Len(self_sub_categories) |->
                             Append(FirstWord(self_sub_categories[i], 1), " ")]
        sub_counts == [p \in 1..6 |->
                          IF p <= Len(sub_cats)
                          THEN SlotAfter(matches, sub_cats[p], 1, 0)
                          ELSE 0]
    IN  IF IndexIn(categories, category, 1) = 0 THEN ValueError
        ELSE IF ~category_text.found
             THEN CategoryNotFound(for_reward)
        ELSE IF startswith(group1, <<"N", "o">>) THEN Counts(0, zeros)
        ELSE IF category = "Matched Findings"
             THEN Counts(IF Len(counts) > 0 THEN counts[1] ELSE 0, zeros)
        ELSE Counts(SumSeq(sub_counts), sub_counts)

\* compute_error_count: sig_errors + [matched_findings]
compute_error_count(self_sub_categories, response) ==
    LET sig == parse_error_counts(self_sub_categories, response, categories[1], FALSE)
        matched == parse_error_counts(self_sub_categories, response, categories[3], FALSE)
    IN  Append(sig.sub_counts, matched.sum_counts)

\* The values compute_green returns: None, or the number num / den (the int 0
\* is Number(0, 1)).
None == [kind |-> "None", num |-> 0, den |-> 1]
Number(n, d) == [kind |-> "number", num |-> n, den |-> d]

\* compute_green reading categories[1], the insignificant errors
compute_green_insignificant(self_sub_categories, response) ==
    LET sig == parse_error_counts(self_sub_categories, response, categories[2], FALSE)
        matched == parse_error_counts(self_sub_categories, response, categories[3], FALSE)
    IN  IF ~matched.none /\ matched.sum_counts = 0 THEN Number(0, 1)
        ELSE IF sig.none \/ matched.none THEN None
        ELSE Number(matched.sum_counts, matched.sum_counts + SumSeq(sig.sub_counts))

\* compute_green without its  matched_findings == 0  return
compute_green_no_zero_return(self_sub_categories, response) ==
    LET sig == parse_error_counts(self_sub_categories, response, categories[1], FALSE)
        matched == parse_error_counts(self_sub_categories, response, categories[3], FALSE)
    IN  IF sig.none \/ matched.none THEN None
        ELSE Number(matched.sum_counts, matched.sum_counts + SumSeq(sig.sub_counts))

compute_green(self_sub_categories, response) ==
    LET sig == parse_error_counts(self_sub_categories, response, categories[1], FALSE)
        matched == parse_error_counts(self_sub_categories, response, categories[3], FALSE)
        sig_present == sig.sum_counts
        sig_errors == sig.sub_counts
        matched_findings == matched.sum_counts
    IN  IF ~matched.none /\ matched_findings = 0 THEN Number(0, 1)
        ELSE IF sig.none \/ matched.none THEN None
        ELSE Number(matched_findings, matched_findings + SumSeq(sig_errors))

\* s.rsplit(sep, 1)[-1]: what follows the last sep (all of s when there is none)
RECURSIVE AfterLast(_, _, _)
AfterLast(s, sep, i) ==
    IF i < 1 THEN s
    ELSE IF s[i] = sep THEN SubSeq(s, i + 1, Len(s))
    ELSE AfterLast(s, sep, i - 1)

\* s.split(sep, 1)[-1]: what follows the first sep (all of s when there is none)
RECURSIVE AfterFirst(_, _, _)
AfterFirst(s, sep, i) ==
    IF i > Len(s) THEN s
    ELSE IF s[i] = sep THEN SubSeq(s, i + 1, Len(s))
    ELSE AfterFirst(s, sep, i + 1)

\* s.split(sep)
RECURSIVE split(_, _, _, _)
split(s, sep, from, i) ==
    IF i > Len(s) THEN <<SubSeq(s, from, Len(s))>>
    ELSE IF s[i] = sep THEN <<SubSeq(s, from, i - 1)>> \o split(s, sep, i + 1, i + 1)
    ELSE split(s, sep, from, i + 1)

\* the last match that starts with sub_category, 0 when none does
RECURSIVE LastMatch(_, _, _)
LastMatch(matches, sub_category, m) ==
    IF m < 1 THEN 0
    ELSE IF startswith(matches[m], sub_category) THEN m
    ELSE LastMatch(matches, sub_category, m - 1)

\* parse_error_sentences: [ret: what it returns, sub_categories: self.sub_categories
\* when it returns].  A dict is a function of its keys.
parse_error_sentences(self_sub_categories, response, category) ==
    LET category_text == CategorySearch(response, category)
        group1 == category_text.group1
        n == Len(self_sub_categories)
        empty == [k \in {self_sub_categories[i] : i \in 1..n} |-> <<>>]
        lettered == sorted(FindMarkers(group1, 1, LetterMarkers))
        matches == IF Len(lettered) = 0
                   THEN sorted(FindMarkers(group1, 1, NumberMarkers))
                   ELSE lettered
        new_sub == IF Len(lettered) = 0
                   THEN NumberedSubCategories(n)
                   ELSE self_sub_categories
        hit == {p \in 1..n : LastMatch(matches, new_sub[p], Len(matches)) > 0}
        sentences(p) ==
            LET m == matches[LastMatch(matches, new_sub[p], Len(matches))]
            IN  split(AfterFirst(AfterLast(m, ":", Len(m)), ".", 1), ";", 1, 1)
        filled == [k \in DOMAIN empty \cup {new_sub[p] : p \in hit} |->
                      IF \E p \in hit : new_sub[p] = k
                      THEN sentences(CHOOSE p \in hit : new_sub[p] = k)
                      ELSE <<>>]
    IN  IF IndexIn(categories, category, 1) = 0
        THEN [ret |-> ValueError, sub_categories |-> self_sub_categories]
        ELSE IF ~category_text.found \/ startswith(group1, <<"N", "o">>)
        THEN [ret |-> empty, sub_categories |-> self_sub_categories]
        ELSE IF category = "Matched Findings"
        THEN [ret |-> split(AfterLast(AfterLast(group1, ":", Len(group1)), ".",
                                      Len(AfterLast(group1, ":", Len(group1)))), ";", 1, 1),
              sub_categories |-> self_sub_categories]
        ELSE [ret |-> filled, sub_categories |-> new_sub]

\* compute_sentences
compute_sentences(self_sub_categories, response) ==
    parse_error_sentences(self_sub_categories, response, categories[1])

\* compute_accuracy: dict_acc, each accuracy the fraction num / den
compute_accuracy(self_sub_categories, responses) ==
    LET counts == [r \in 1..Len(responses) |->
                      parse_error_counts(self_sub_categories, responses[r],
                                         categories[1], FALSE).sub_counts]
        n == Len(self_sub_categories)
    IN  [k \in {self_sub_categories[i] : i \in 1..n} |->
            LET i == CHOOSE i \in 1..n : self_sub_categories[i] = k
            IN  [num |-> Cardinality({r \in 1..Len(responses) : counts[r][i] = 0}),
                 den |-> Len(responses)]]

----------------------------------------------------------------------------
(* The critique texts the methods are called with *)

MaxFrags == 2       \* marker lines in one error block
MaxResponses == 2   \* critiques in one compute_accuracy call

SigLabel == "[Clinically Significant Errors]"
InsigLabel == "[Clinically Insignificant Errors]"
MatchedLabel == "[Matched Findings]"

\* one line of an error block
Frags ==
    { <<"(", "a", ")", " ", "x", ":", " ", "1", ".">>,
      <<"(", "a", ")", " ", "x", ":", " ", "2", ".">>,
      <<"(", "b", ")", " ", DescB, ":", " ", "1", ".", " ", "x", ";", "x">>,
      <<"(", "a", ")", " ", "x">>,
      <<"x", " ", "(", "c", ")", " ", "x", ":", " ", "3", ".">>,
      <<"(", "a", ")", " ", "x", ":", " ", "1", ".", " ", "(", "b", ")", " ", "x", ":", " ", "2", ".">>,
      <<"(", "1", ")", " ", "x", ":", " ", "1", ".">>,
      <<"(", "3", ")", " ", "x", ":", " ", "2", ".">> }

RECURSIVE JoinLines(_)
JoinLines(lines) ==
    IF Len(lines) = 0 THEN <<>>
    ELSE IF Len(lines) = 1 THEN lines[1]
    ELSE lines[1] \o <<NL>> \o JoinLines(Tail(lines))

FragLines == UNION {[1..n -> Frags] : n \in 1..MaxFrags}

\* the [Clinically Significant Errors] section: none, "No ...", free text, or
\* the label and marker lines below it
SigParts ==
    { <<>>,
      <<SigLabel, ":", " ", "N", "o", " ", "x", ".">>,
      <<SigLabel, ":", " ", "x", ".">> }
    \cup {<<SigLabel, ":", NL>> \o JoinLines(lines) : lines \in FragLines}

\* the [Matched Findings] section: none, a count, no count, "No ...", no colon
MatchedParts ==
    { <<>>,
      <<MatchedLabel, ":", " ", "0", ".", " ", "N", "o", " ", "x", ".">>,
      <<MatchedLabel, ":", " ", "1", ".", " ", "x", ".">>,
      <<MatchedLabel, ":", " ", "5", ".", " ", "x", ".">>,
      <<MatchedLabel, ":", " ", "x", ".">>,
      <<MatchedLabel, ":", " ", "N", "o", " ", "x", ".">>,
      <<MatchedLabel, " ", "5", ".">> }

Sections(first, second) ==
    IF first = <<>> THEN second
    ELSE IF second = <<>> THEN first
    ELSE first \o <<NL, NL>> \o second

\* "[Matched Findings]: 1. All findings matched.\n\n[Clinically Significant
\* Errors]: No clinically significant errors.\n\n[Clinically Insignificant
\* Errors]: No clinically insignificant errors."
EndToEndCritique ==
    <<MatchedLabel, ":", " ", "1", ".", " ", "x", ".", NL, NL,
      SigLabel, ":", " ", "N", "o", " ", "x", ".", NL, NL,
      InsigLabel, ":", " ", "N", "o", " ", "x", ".">>

\* sections in the other order, a blank line right under the label, two
\* digits, an insignificant block
OtherTexts ==
    { EndToEndCritique,
      <<SigLabel, ":", NL, "(", "b", ")", " ", "x", ":", " ", "2", ".", NL, NL,
        MatchedLabel, ":", " ", "1", ".", " ", "x", ".">>,
      <<SigLabel, ":", NL, NL, "(", "a", ")", " ", "x", ":", " ", "1", "2", ".", NL,
        MatchedLabel, ":", " ", "3", ".">>,
      <<MatchedLabel, ":", " ", "2", ".", " ", "x", ".", NL, NL,
        InsigLabel, ":", NL, "(", "a", ")", " ", "x", ":", " ", "1", ".", NL,
        "(", "f", ")", " ", "x", ":", " ", "1", ".">>,
      <<MatchedLabel, ":", " ", "0", ".", NL, NL,
        SigLabel, ":", NL, "(", "2", ")", " ", "x", ":", " ", "1", ".", NL,
        "(", "6", ")", " ", "x", ":", " ", "4", ".">> }

\* every [Matched Findings] section with a few error blocks, and every error
\* block with a few [Matched Findings] sections
FewSigParts ==
    { s \in SigParts : Len(s) <= 8 }
    \cup { <<SigLabel, ":", NL, "(", "b", ")", " ", "x", ":", " ", "2", ".", NL,
             "(", "a", ")", " ", "x", ":", " ", "1", ".">>,
           <<SigLabel, ":", NL, "(", "2", ")", " ", "x", ":", " ", "3", ".">> }

FewMatchedParts ==
    { <<>>,
      <<MatchedLabel, ":", " ", "0", ".", " ", "N", "o", " ", "x", ".">>,
      <<MatchedLabel, ":", " ", "5", ".", " ", "x", ".">> }

Texts ==
    {Sections(m, s) : m \in MatchedParts, s \in FewSigParts}
    \cup {Sections(m, s) : m \in FewMatchedParts, s \in SigParts}
    \cup OtherTexts

\* the critiques of a small dataset
PoolTexts ==
    { EndToEndCritique,
      <<MatchedLabel, ":", " ", "1", ".", " ", "x", ".", NL, NL,
        SigLabel, ":", NL, "(", "a", ")", " ", "x", ":", " ", "1", ".">>,
      <<MatchedLabel, ":", " ", "1", ".", " ", "x", ".", NL, NL,
        SigLabel, ":", NL, "(", "1", ")", " ", "x", ":", " ", "1", ".">>,
      <<MatchedLabel, ":", " ", "5", ".", " ", "x", ".">> }

CategoryArgs == {categories[i] : i \in 1..3} \cup {"Other"}

----------------------------------------------------------------------------
(* Calls of the Inferer's methods, one after the other, on one Inferer *)

NoCall == [op |-> "", text |-> <<>>, category |-> "", for_reward |-> FALSE,
           responses |-> <<>>]
NoRet == [kind |-> "nothing"]

Unused == <<>>

CallsInit ==
    /\ sub_categories = InitSubCategories
    /\ pc = "idle"
    /\ call = NoCall
    /\ ret = NoRet
    /\ dataset = Unused /\ generate = Unused /\ world_size = 0 /\ batch_size = 0
    /\ cursor = Unused /\ local_completions = Unused /\ local_references = Unused
    /\ completions = Unused /\ prompts = Unused /\ green_scores = Unused
    /\ error_counts = Unused /\ results_df = Unused /\ accuracies = Unused

PipelineUnchanged ==
    UNCHANGED <<dataset, generate, world_size, batch_size, cursor, local_completions,
                local_references, completions, prompts, green_scores, error_counts,
                results_df, accuracies>>

ParseErrorCounts(text, category, for_reward) ==
    /\ pc = "idle"
    /\ call' = [NoCall EXCEPT !.op = "parse_error_counts", !.text = text,
                              !.category = category, !.for_reward = for_reward]
    /\ ret' = parse_error_counts(sub_categories, text, category, for_reward)
    /\ pc' = "returned"
    /\ UNCHANGED sub_categories
    /\ PipelineUnchanged

ParseErrorSentences(text, category) ==
    /\ pc = "idle"
    /\ call' = [NoCall EXCEPT !.op = "parse_error_sentences", !.text = text,
                              !.category = category]
    /\ ret' = parse_error_sentences(sub_categories, text, category).ret
    /\ sub_categories' = parse_error_sentences(sub_categories, text, category).sub_categories
    /\ pc' = "returned"
    /\ PipelineUnchanged

ComputeGreen(text) ==
    /\ pc = "idle"
    /\ call' = [NoCall EXCEPT !.op = "compute_green", !.text = text]
    /\ ret' = compute_green(sub_categories, text)
    /\ pc' = "returned"
    /\ UNCHANGED sub_categories
    /\ PipelineUnchanged

ComputeErrorCount(text) ==
    /\ pc = "idle"
    /\ call' = [NoCall EXCEPT !.op = "compute_error_count", !.text = text]
    /\ ret' = compute_error_count(sub_categories, text)
    /\ pc' = "returned"
    /\ UNCHANGED sub_categories
    /\ PipelineUnchanged

ComputeAccuracy(responses) ==
    /\ pc = "idle"
    /\ call' = [NoCall EXCEPT !.op = "compute_accuracy", !.responses = responses]
    /\ ret' = compute_accuracy(sub_categories, responses)
    /\ pc' = "returned"
    /\ UNCHANGED sub_categories
    /\ PipelineUnchanged

\* the call returns to its caller
Return ==
    /\ pc = "returned"
    /\ pc' = "idle"
    /\ call' = NoCall
    /\ ret' = NoRet
    /\ UNCHANGED sub_categories
    /\ PipelineUnchanged

CallsNext ==
    \/ \E text \in Texts, category \in CategoryArgs, for_reward \in BOOLEAN :
           ParseErrorCounts(text, category, for_reward)
    \/ \E text \in Texts, category \in CategoryArgs : ParseErrorSentences(text, category)
    \/ \E text \in Texts : ComputeGreen(text)
    \/ \E text \in Texts : ComputeErrorCount(text)
    \/ \E n \in 1..MaxResponses : \E responses \in [1..n -> PoolTexts] :
           ComputeAccuracy(responses)
    \/ Return

Spec == CallsInit /\ [][CallsNext]_vars

----------------------------------------------------------------------------
(* infer(): one process per rank, the gather, and process_results on rank 0 *)

MaxExamples == 3    \* pairs in the dataset
MaxWorkers == 2     \* WORLD_SIZE
MaxBatch == 2       \* self.batch_size

Ranks == 0..(world_size - 1)

\* process_data: the prompt of a pair (make_prompt is injective in the pair)
Example(i) ==
    [reference |-> <<"reference", i>>,
     prediction |-> <<"prediction", i>>,
     prompt |-> <<"prompt", <<"reference", i>>, <<"prediction", i>> >>]

\* split_dataset_by_node(self.dataset, rank, world_size) on a map-style
\* dataset: the rank's contiguous block, the first len % world_size blocks
\* one longer
ShardStart(rank) ==
    (Len(dataset) \div world_size) * rank
    + (IF rank < Len(dataset) % world_size THEN rank ELSE Len(dataset) % world_size)

ShardLen(rank) ==
    (Len(dataset) \div world_size)
    + (IF rank < Len(dataset) % world_size THEN 1 ELSE 0)

dataset_dist(rank) ==
    IF world_size > 1
    THEN SubSeq(dataset, ShardStart(rank) + 1, ShardStart(rank) + ShardLen(rank))
    ELSE dataset

\* dataset_dist.iter(batch_size): the batch that starts after `done` examples
Batch(rank, done) ==
    SubSeq(dataset_dist(rank), done + 1,
           IF done + batch_size < Len(dataset_dist(rank))
           THEN done + batch_size ELSE Len(dataset_dist(rank)))

\* list.extend at the front
extend_front(list, items) == items \o list

\* list.extend
extend(list, items) == list \o items

\* get_response(batch): one cleaned response per prompt of the batch
get_response(batch) == [k \in 1..Len(batch) |-> generate[batch[k].prompt]]

InferInit ==
    /\ \E n \in 1..MaxExamples : dataset = [i \in 1..n |-> Example(i)]
    /\ generate \in [{dataset[i].prompt : i \in 1..Len(dataset)} -> PoolTexts]
    /\ world_size \in 1..MaxWorkers
    /\ batch_size \in 1..MaxBatch
    /\ sub_categories = InitSubCategories
    /\ pc = [r \in Ranks |-> "loop"]
    /\ cursor = [r \in Ranks |-> 0]
    /\ local_completions = [r \in Ranks |-> <<>>]
    /\ local_references = [r \in Ranks |-> <<>>]
    /\ completions = None
    /\ prompts = None
    /\ green_scores = None
    /\ error_counts = None
    /\ results_df = None
    /\ accuracies = None
    /\ call = NoCall
    /\ ret = NoRet

\* one turn of the loop over the batches of the rank's shard
InferBatch(rank) ==
    /\ pc[rank] = "loop"
    /\ cursor[rank] < Len(dataset_dist(rank))
    /\ LET batch == Batch(rank, cursor[rank])
       IN  /\ local_references' =
                  [local_references EXCEPT ![rank] =
                      extend(@, [k \in 1..Len(batch) |-> batch[k].prompt])]
           /\ local_completions' =
                  [local_completions EXCEPT ![rank] = extend(@, get_response(batch))]
           /\ cursor' = [cursor EXCEPT ![rank] = @ + Len(batch)]
    /\ UNCHANGED <<sub_categories, pc, call, ret, dataset, generate, world_size,
                   batch_size, completions, prompts, green_scores, error_counts,
                   results_df, accuracies>>

\* several workers: the rank is through its shard and calls gather_processes
\* with its local lists, where it waits
EnterGather(rank) ==
    /\ world_size > 1
    /\ pc[rank] = "loop"
    /\ cursor[rank] = Len(dataset_dist(rank))
    /\ pc' = [pc EXCEPT ![rank] = "gather"]
    /\ UNCHANGED <<sub_categories, call, ret, dataset, generate, world_size, batch_size,
                   cursor, local_completions, local_references, completions, prompts,
                   green_scores, error_counts, results_df, accuracies>>

\* the lists of the ranks 0..last, one after the other
RECURSIVE Concatenated(_, _)
Concatenated(lists, last) ==
    IF last < 0 THEN <<>> ELSE Concatenated(lists, last - 1) \o lists[last]

\* a gather that hands rank 0 the lists as soon as rank 0 has called it
GatherWithoutWaiting ==
    /\ world_size > 1
    /\ pc[0] = "gather"
    /\ completions' = Concatenated(local_completions, world_size - 1)
    /\ prompts' = Concatenated(local_references, world_size - 1)
    /\ pc' = [pc EXCEPT ![0] = "merged"]
    /\ UNCHANGED <<sub_categories, call, ret, dataset, generate, world_size, batch_size,
                   cursor, local_completions, local_references, green_scores,
                   error_counts, results_df, accuracies>>

\* gather_processes: the all-to-one gather.  Once every rank has called it,
\* rank 0 holds the local lists concatenated in rank order; the other ranks
\* hold no results
Gather ==
    /\ world_size > 1
    /\ \A r \in Ranks : pc[r] = "gather"
    /\ completions' = Concatenated(local_completions, world_size - 1)
    /\ prompts' = Concatenated(local_references, world_size - 1)
    /\ pc' = [r \in Ranks |-> IF r = 0 THEN "merged" ELSE "exited"]
    /\ UNCHANGED <<sub_categories, call, ret, dataset, generate, world_size, batch_size,
                   cursor, local_completions, local_references, green_scores,
                   error_counts, results_df, accuracies>>

\* one worker: the local lists are the results
KeepLocal ==
    /\ world_size = 1
    /\ pc[0] = "loop"
    /\ cursor[0] = Len(dataset_dist(0))
    /\ completions' = local_completions[0]
    /\ prompts' = local_references[0]
    /\ pc' = [pc EXCEPT ![0] = "merged"]
    /\ UNCHANGED <<sub_categories, call, ret, dataset, generate, world_size, batch_size,
                   cursor, local_completions, local_references, green_scores,
                   error_counts, results_df, accuracies>>

\* the loop of get_representative_sentences over the responses k..: the dicts
\* compute_sentences returns, and self.sub_categories after the last
RECURSIVE SentencesFrom(_, _, _, _)
SentencesFrom(self_sub_categories, responses, k, list_sentences) ==
    IF k > Len(responses)
    THEN [list_sentences |-> list_sentences, sub_categories |-> self_sub_categories]
    ELSE CHOOSE rest \in
             { SentencesFrom(r.sub_categories, responses, k + 1,
                             Append(list_sentences, r.ret)) :
                   r \in {compute_sentences(self_sub_categories, responses[k])} } : TRUE

\* flatten_values_lists_of_list_dicts_to_dict: the keys of the flattened dict
FlattenedKeys(list_sentences) ==
    UNION {DOMAIN list_sentences[k] : k \in 1..Len(list_sentences)}

\* get_representative_sentences: whether dict_sentences[i] raises KeyError for
\* a sub_category i, and self.sub_categories when it is over
get_representative_sentences(self_sub_categories, responses) ==
    LET done == SentencesFrom(self_sub_categories, responses, 1, <<>>)
        keys == FlattenedKeys(done.list_sentences)
    IN  [raised |-> \E i \in 1..Len(done.sub_categories) :
                        done.sub_categories[i] \notin keys,
         sub_categories |-> done.sub_categories]

\* process_results on rank 0, compute_summary included
ProcessResults ==
    /\ pc[0] = "merged"
    /\ green_scores' = [k \in 1..Len(completions) |->
                           compute_green(sub_categories, completions[k])]
    /\ error_counts' = [k \in 1..Len(completions) |->
                           compute_error_count(sub_categories, completions[k])]
    /\ LET sentences == get_representative_sentences(sub_categories, completions)
       IN  IF Len(completions) # Len(dataset)
           THEN \* pd.DataFrame: arrays of different lengths
                /\ pc' = [pc EXCEPT ![0] = "raised"]
                /\ UNCHANGED <<results_df, sub_categories, accuracies>>
           ELSE /\ results_df' =
                       [k \in 1..Len(dataset) |->
                           [reference |-> dataset[k].reference,
                            predictions |-> dataset[k].prediction,
                            evaluation |-> completions[k],
                            green |-> green_scores'[k],
                            counts |-> error_counts'[k]]]
                /\ sub_categories' = sentences.sub_categories
                /\ IF sentences.raised
                   THEN \* KeyError in get_representative_sentences
                        /\ pc' = [pc EXCEPT ![0] = "raised"]
                        /\ UNCHANGED accuracies
                   ELSE /\ accuracies' = compute_accuracy(sub_categories', completions)
                        /\ pc' = [pc EXCEPT ![0] = "done"]
    /\ UNCHANGED <<call, ret, dataset, generate, world_size, batch_size, cursor,
                   local_completions, local_references, completions, prompts>>

InferNext ==
    \/ \E rank \in Ranks : InferBatch(rank)
    \/ \E rank \in Ranks : EnterGather(rank)
    \/ Gather
    \/ KeepLocal
    \/ ProcessResults

InferSpec == InferInit /\ [][InferNext]_vars

----------------------------------------------------------------------------
(* What the claims speak of *)

Returned(op) == pc = "returned" /\ call.op = op

ErrorCategories == {categories[1], categories[2]}

\* the text holds the category's bracketed label with its colon
Located(text, category) ==
    \E i \in 1..(Len(text) - 1) : text[i] = Label(category) /\ text[i + 1] = ":"

\* the body of the category's block
Body(text, category) == CategorySearch(text, category).group1

\* what the parser reports for the text to this Inferer
SigCounts(text) == parse_error_counts(sub_categories, text, categories[1], FALSE)
MatchedCounts(text) == parse_error_counts(sub_categories, text, categories[3], FALSE)

\* C1: for a critique without a [Clinically Significant Errors] block whose
\* [Matched Findings] block parses to a count above 0, compute_green returns
\* None, never a number.
C1_SigAbsentIsUndefined ==
    (/\ Returned("compute_green")
     /\ ~Located(call.text, categories[1])
     /\ MatchedCounts(call.text).sum_counts > 0)
        => ret = None

\* what the call in progress returns on an Inferer nothing was called on before
FreshReturn ==
    CASE call.op = "parse_error_counts" ->
             parse_error_counts(InitSubCategories, call.text, call.category, call.for_reward)
      [] call.op = "parse_error_sentences" ->
             parse_error_sentences(InitSubCategories, call.text, call.category).ret
      [] call.op = "compute_green" -> compute_green(InitSubCategories, call.text)
      [] call.op = "compute_error_count" -> compute_error_count(InitSubCategories, call.text)
      [] call.op = "compute_accuracy" -> compute_accuracy(InitSubCategories, call.responses)

\* C2: the methods are pure: whatever was called before, a call returns what it
\* returns on a fresh Inferer, and it leaves self.sub_categories as __init__
\* set it.
C2_CallsArePure ==
    pc = "returned" => (sub_categories = InitSubCategories /\ ret = FreshReturn)

\* the second half of C2 alone: a result that depends on the calls before it
C2_ResultsDoNotDependOnHistory ==
    pc = "returned" => ret = FreshReturn

\* C4: for a critique whose [Matched Findings] block is absent, or holds no
\* leading count, compute_green returns None rather than a number.
C4_MatchedUnresolvedIsUndefined ==
    (/\ Returned("compute_green")
     /\ \/ ~Located(call.text, categories[3])
        \/ LeadingCount(Body(call.text, categories[3])) = <<>>)
        => ret = None

\* the spans <<first, last>> of the marker fragments of a block's body, as the
\* parser's findall cuts them
RECURSIVE MarkerSpans(_, _, _)
MarkerSpans(s, i, alphabet) ==
    IF i > Len(s) THEN <<>>
    ELSE IF MarkerAt(s, i, alphabet)
         THEN <<(<<i, LineEnd(s, i)>>)>> \o MarkerSpans(s, LineEnd(s, i) + 1, alphabet)
         ELSE MarkerSpans(s, i + 1, alphabet)

\* the body with its fragments in the order p, everything between them in place
RECURSIVE Weave(_, _, _, _)
Weave(body, spans, p, k) ==
    IF k > Len(spans) THEN <<>>
    ELSE SubSeq(body, spans[p[k]][1], spans[p[k]][2])
         \o SubSeq(body, spans[k][2] + 1,
                   IF k = Len(spans) THEN Len(body) ELSE spans[k + 1][1] - 1)
         \o Weave(body, spans, p, k + 1)

\* the texts that differ from text only in the order of the (a)..(f) fragments
\* of the category's block
FragmentPermutations(text, category) ==
    LET at == LabelAt(text, category, 1)
        from == SkipSpace(text, at + 2)
        to == BlockEnd(text, from) - 1
        body == SubSeq(text, from, to)
        spans == MarkerSpans(body, 1, LetterMarkers)
    IN  IF at = 0 \/ Len(spans) = 0 THEN {text}
        ELSE { SubSeq(text, 1, from - 1)
               \o SubSeq(body, 1, spans[1][1] - 1)
               \o Weave(body, spans, p, 1)
               \o SubSeq(text, to + 1, Len(text)) : p \in Permutations(1..Len(spans)) }

\* C6: permuting the order of the (a)..(f) marker fragments of an error block
\* leaves what parse_error_counts returns for it unchanged.
C6_MarkerOrderIndependence ==
    (Returned("parse_error_counts") /\ call.category \in ErrorCategories)
        => \A permuted \in FragmentPermutations(call.text, call.category) :
               parse_error_counts(sub_categories, permuted, call.category,
                                  call.for_reward) = ret

\* parse_error_counts has returned for a block whose fragments, two of them for
\* the same marker (a) and one for (b), have another order too
C6_Witness ==
    /\ Returned("parse_error_counts")
    /\ call.category = categories[1]
    /\ \E permuted \in FragmentPermutations(call.text, call.category) :
           permuted # call.text
    /\ Len(FindMarkers(Body(call.text, call.category), 1, <<"a">>)) >= 2
    /\ ret.sub_counts[1] > 0

\* C7: with both blocks located and a matched count other than 0, compute_green
\* returns matched / (matched + the sum of the six significant counts); the
\* end-to-end critique (matched 1, "No ..." error blocks) has six zero counts
\* and the score 1.
C7_ScoreFormula ==
    /\ (/\ Returned("compute_green")
        /\ Located(call.text, categories[1])
        /\ Located(call.text, categories[3])
        /\ MatchedCounts(call.text).sum_counts # 0)
           => /\ ret.kind = "number"
              /\ ret.den > 0
              /\ ret.num * (MatchedCounts(call.text).sum_counts
                            + SumSeq(SigCounts(call.text).sub_counts))
                 = MatchedCounts(call.text).sum_counts * ret.den
    /\ (Returned("compute_green") /\ call.text = EndToEndCritique)
           => /\ MatchedCounts(call.text).sum_counts = 1
              /\ SigCounts(call.text).sub_counts = [i \in 1..6 |-> 0]
              /\ ret.kind = "number" /\ ret.den > 0 /\ ret.num = ret.den

\* compute_green has returned for a critique with 5 matched findings and
\* significant errors
C7_Witness ==
    /\ Returned("compute_green")
    /\ Located(call.text, categories[1])
    /\ MatchedCounts(call.text).sum_counts = 5
    /\ SumSeq(SigCounts(call.text).sub_counts) > 1

\* C8: whenever the matched-findings total parses to 0, compute_green returns
\* 0, whatever the significant-error block holds and whether it is there.
C8_NoMatchesScoreZero ==
    (Returned("compute_green") /\ MatchedCounts(call.text).sum_counts = 0)
        => (ret.kind = "number" /\ ret.den # 0 /\ ret.num = 0)

\* compute_green has returned 0 for "[Matched Findings]: 0. ..." with no
\* significant errors counted
C8_Witness ==
    /\ Returned("compute_green")
    /\ Located(call.text, categories[3])
    /\ startswith(Body(call.text, categories[3]), <<"0", ".">>)
    /\ SumSeq(SigCounts(call.text).sub_counts) = 0

\* C9: for a valid category whose labelled block is not in the text,
\* parse_error_counts returns (0, [0]*6) by default and (None, None) with
\* for_reward; it returns (None, None) in no other case.
C9_MissingBlock ==
    (Returned("parse_error_counts") /\ call.category \in {categories[i] : i \in 1..3})
        => /\ ~Located(call.text, call.category)
                => ret = (IF call.for_reward THEN NoneNone
                          ELSE Counts(0, <<0, 0, 0, 0, 0, 0>>))
           /\ ret = NoneNone => (call.for_reward /\ ~Located(call.text, call.category))

\* parse_error_counts has returned (None, None) for the reward
C9_Witness ==
    /\ Returned("parse_error_counts")
    /\ call.for_reward
    /\ ~Located(call.text, call.category)
    /\ ret = NoneNone

\* the text with every lettered marker (a)..(f) replaced by (1)..(6)
Digitize(text) ==
    [i \in 1..Len(text) |->
        IF i >= 2 /\ MarkerAt(text, i - 1, LetterMarkers)
        THEN Digits[IndexIn(Letters, text[i], 1) + 1]
        ELSE text[i]]

\* C10: an error block that uses the markers (1)..(6) fills the slots the
\* same block with (a)..(f) fills: replacing every letter marker by its digit
\* leaves the subCounts of parse_error_counts unchanged.
C10_NumericFallbackSameSlots ==
    (/\ Returned("parse_error_counts")
     /\ call.category \in ErrorCategories
     /\ FindMarkers(Body(call.text, call.category), 1, LetterMarkers) # <<>>
     /\ FindMarkers(Body(call.text, call.category), 1, NumberMarkers) = <<>>)
        => parse_error_counts(sub_categories, Digitize(call.text), call.category,
                              call.for_reward).sub_counts = ret.sub_counts

\* C10 on an Inferer whose sub_categories are as __init__ set them
C10_OnFreshInferer ==
    sub_categories = InitSubCategories => C10_NumericFallbackSameSlots

\* the fragments of an error block in sorted order: the lettered marker lines,
\* or the numbered ones when no line has a lettered marker
SortedFragments(body) ==
    IF FindMarkers(body, 1, LetterMarkers) # <<>>
    THEN sorted(FindMarkers(body, 1, LetterMarkers))
    ELSE sorted(FindMarkers(body, 1, NumberMarkers))

\* the marker of subcategory p in the alphabet of the block
MarkerOf(body, p) ==
    IF FindMarkers(body, 1, LetterMarkers) # <<>>
    THEN Append(FirstWord(sub_categories[p], 1), " ")
    ELSE <<"(", Digits[p + 1], ")", " ">>

\* the first integer between a colon and a period in the first of the
\* fragments whose prefix is the marker; 0 without such a fragment or integer
FirstFragmentCount(fragments, marker) ==
    LET matching == {m \in 1..Len(fragments) : startswith(fragments[m], marker)}
    IN  IF matching = {} THEN 0
        ELSE LET first == CHOOSE m \in matching : \A n \in matching : m <= n
             IN  IF ColonCounts(fragments[first], 1) = <<>> THEN 0
                 ELSE ColonCounts(fragments[first], 1)[1]

\* parse_error_counts has returned the counts of an error block with markers
ParsedErrorBlock ==
    /\ Returned("parse_error_counts")
    /\ call.category \in ErrorCategories
    /\ Located(call.text, call.category)
    /\ ~startswith(Body(call.text, call.category), <<"N", "o">>)

\* C11: in parse_error_counts for an error category, the count of each
\* subcategory is the first colon-to-period integer of the first fragment, in
\* sorted order, whose prefix is the subcategory's marker, and 0 when no
\* fragment has that prefix or that first fragment has no such integer.
C11_FirstSortedFragmentCounts ==
    ParsedErrorBlock
        => \A p \in 1..6 :
               ret.sub_counts[p] =
                   FirstFragmentCount(SortedFragments(Body(call.text, call.category)),
                                      MarkerOf(Body(call.text, call.category), p))

\* C11 for the blocks in which no two fragments have the same marker
C11_WithoutRepeatedMarkers ==
    (\A p \in 1..6 :
        Cardinality({m \in 1..Len(SortedFragments(Body(call.text, call.category))) :
                        startswith(SortedFragments(Body(call.text, call.category))[m],
                                   MarkerOf(Body(call.text, call.category), p))}) <= 1)
        => C11_FirstSortedFragmentCounts

ValidCategories == {categories[i] : i \in 1..3}

\* the result carries a sub_counts list of six non-negative integers
SixNonNegative(result) ==
    /\ ~result.none
    /\ Len(result.sub_counts) = 6
    /\ \A p \in 1..6 : result.sub_counts[p] \in Nat

\* C13 as stated: every result parse_error_counts returns, for any text, any
\* valid category and either calling mode, carries a sub_counts list of
\* exactly six non-negative integers.
C13_AlwaysSixNonNegative ==
    (Returned("parse_error_counts") /\ call.category \in ValidCategories)
        => SixNonNegative(ret)

\* C13 amended: every result parse_error_counts returns for a valid category
\* carries a sub_counts list of exactly six non-negative integers, except the
\* (None, None) it returns with for_reward for a block that is not in the
\* text, which carries no list.
C13_SixNonNegativeUnlessAbsent ==
    (Returned("parse_error_counts") /\ call.category \in ValidCategories)
        => IF call.for_reward /\ ~Located(call.text, call.category)
           THEN ret.none
           ELSE SixNonNegative(ret)

\* parse_error_counts has returned, for the reward, the counts of an error
\* block with two subcategories counted
C13_Witness ==
    /\ Returned("parse_error_counts")
    /\ call.for_reward
    /\ call.category \in ErrorCategories
    /\ Located(call.text, call.category)
    /\ SixNonNegative(ret)
    /\ Cardinality({p \in 1..6 : ret.sub_counts[p] > 0}) = 2

----------------------------------------------------------------------------
(* The claims about infer() *)

\* C3: after the merge, completions[i] and prompts[i] are those of input pair
\* i for every i, whatever the number of workers and the batch size, so row i
\* of the table pairs reference i and prediction i with the critique written
\* for that pair.
C3_OrderPreserved ==
    /\ pc[0] \in {"merged", "done", "raised"}
           => /\ Len(completions) = Len(dataset)
              /\ Len(prompts) = Len(dataset)
              /\ \A i \in 1..Len(dataset) :
                     /\ prompts[i] = dataset[i].prompt
                     /\ completions[i] = generate[dataset[i].prompt]
    /\ pc[0] = "done"
           => \A i \in 1..Len(dataset) :
                  /\ results_df[i].reference = dataset[i].reference
                  /\ results_df[i].predictions = dataset[i].prediction
                  /\ results_df[i].evaluation = generate[dataset[i].prompt]

\* the table is built from three pairs with different critiques, sharded over
\* two workers (shards of 2 and 1) in batches of one
C3_Witness ==
    /\ pc[0] = "done"
    /\ world_size = 2
    /\ batch_size = 1
    /\ Len(dataset) = 3
    /\ generate[dataset[1].prompt] # generate[dataset[2].prompt]
    /\ generate[dataset[2].prompt] # generate[dataset[3].prompt]

\* C5: the accuracy compute_summary gets for subcategory s is the fraction of
\* the critiques for which parse_error_counts, asked about that critique
\* alone, reports a significant count of zero for s.
C5_AccuracyIsZeroFraction ==
    pc[0] = "done"
        => \A s \in 1..6 :
               accuracies[sub_categories[s]].num * Len(completions)
               = accuracies[sub_categories[s]].den
                 * Cardinality({k \in 1..Len(completions) :
                       parse_error_counts(InitSubCategories, completions[k],
                                          categories[1], FALSE).sub_counts[s] = 0})

\* rank 0 holds the merged lists: process_results can start or has started
Merged == pc[0] \in {"merged", "done", "raised"}

\* the rank has been through its whole shard and has handed its local
\* completions and prompts to the gather
Delivered(rank) ==
    /\ pc[rank] # "loop"
    /\ cursor[rank] = Len(dataset_dist(rank))
    /\ Len(local_completions[rank]) = Len(dataset_dist(rank))
    /\ Len(local_references[rank]) = Len(dataset_dist(rank))

\* C12: with several workers the merge is the one place where a process
\* waits.  process_results does not start before every worker has finished
\* its shard and delivered its local completions and prompts to the gather;
\* as long as some worker has not delivered, the merge cannot complete (so it
\* never completes if a worker never delivers); and a worker in its loop
\* never waits for another.
C12_MergeIsTheOnlyWait ==
    /\ (world_size > 1 /\ Merged) => \A r \in Ranks : Delivered(r)
    /\ (world_size > 1 /\ \E r \in Ranks : ~Delivered(r)) => ~ENABLED Gather
    /\ \A r \in Ranks :
           pc[r] = "loop" => ENABLED (InferBatch(r) \/ EnterGather(r) \/ KeepLocal)

\* two workers with a shard each, worked through in batches of one, and the
\* merge has completed on rank 0
C12_Witness ==
    /\ world_size = 2
    /\ batch_size = 1
    /\ Len(dataset) >= 2
    /\ pc[0] = "merged"
    /\ pc[1] = "exited"

\* rank 0 waits in the gather while another worker is still in its loop
C12_RankZeroWaits ==
    /\ world_size > 1
    /\ pc[0] = "gather"
    /\ \E r \in Ranks : pc[r] = "loop" /\ cursor[r] < Len(dataset_dist(r))

====
